---- MODULE Spec2Model ----
(***************************************************************************)
(* A model of ratcave/coordinates.py: the Coordinates entities (named,     *)
(* mutable numeric vectors with generated letter accessors), the rotation  *)
(* variants and their conversions, Translation and Scale.                   *)
(*                                                                          *)
(* Objects live in a heap (a sequence; an object's identity is its index). *)
(* Every operation of the module is one action; the outcome of a call (its *)
(* result or the exception it raised) is recorded in `last`, and the       *)
(* writes and change notifications it performed, in order, in `events`.    *)
(***************************************************************************)
EXTENDS Integers, Sequences, FiniteSets, TLC

\* ---------------------------------------------------------------- bounds
MaxObjs == 2        \* live objects
MaxVal == 1         \* component values range over 0..MaxVal
MaxArgs == 4        \* positional arguments tried on a *args constructor

Vals == 0..MaxVal

VARIABLES heap, props, last, events, link

vars == <<heap, props, last, events, link>>

\* ------------------------------------------------------- class structure
EntityClasses ==
    {"Coordinates", "RotationEulerRadians", "RotationEulerDegrees",
     "RotationQuaternion", "Translation", "Scale"}

AllClasses == EntityClasses \cup {"RotationEuler", "RotationBase"}

\* The method resolution order of each class (the observer base classes,
\* which define no letter accessor, are left out).
MRO(cls) ==
    CASE cls = "Coordinates" -> <<"Coordinates">>
      [] cls = "RotationBase" -> <<"RotationBase">>
      [] cls = "RotationEuler" -> <<"RotationEuler", "RotationBase", "Coordinates">>
      [] cls = "RotationEulerRadians" ->
           <<"RotationEulerRadians", "RotationEuler", "RotationBase", "Coordinates">>
      [] cls = "RotationEulerDegrees" ->
           <<"RotationEulerDegrees", "RotationEuler", "RotationBase", "Coordinates">>
      [] cls = "RotationQuaternion" ->
           <<"RotationQuaternion", "RotationBase", "Coordinates">>
      [] cls = "Translation" -> <<"Translation", "Coordinates">>
      [] cls = "Scale" -> <<"Scale", "Coordinates">>

\* The `coords` class attributes: letter -> index into _array.
CoordsXYZ == [x |-> 0, y |-> 1, z |-> 2]
CoordsWXYZ == [w |-> 0, x |-> 1, y |-> 2, z |-> 3]

DefinesCoords(cls) == cls \in {"Coordinates", "RotationQuaternion"}

OwnCoords(cls) == IF cls = "RotationQuaternion" THEN CoordsWXYZ ELSE CoordsXYZ

\* self.coords: the first class of the MRO that defines `coords`.
RECURSIVE FirstCoords(_)
FirstCoords(mro) ==
    IF DefinesCoords(Head(mro)) THEN OwnCoords(Head(mro)) ELSE FirstCoords(Tail(mro))

ClassCoords(cls) == FirstCoords(MRO(cls))

\* ------------------------------------------------- accessor generation
\* itertools.product(coords.keys(), repeat=n) for n in 1..len(coords)
AccessorNames(m) ==
    UNION {[1..n -> DOMAIN m] : n \in 1..Cardinality(DOMAIN m)}

\* indices = [self.coords[coord] for coord in args]
AccessorIndices(m, name) == [k \in 1..Len(name) |-> m[name[k]]]

\* A class's accessor table is kept as the sequence of axis maps whose
\* accessors were installed on it, oldest first: setattr overwrites, so an
\* accessor name is bound by the latest installed map that generates it.
Generates(m, name) ==
    /\ Len(name) >= 1
    /\ Len(name) <= Cardinality(DOMAIN m)
    /\ \A k \in 1..Len(name) : name[k] \in DOMAIN m

SameMap(a, b) == DOMAIN a = DOMAIN b /\ \A k \in DOMAIN a : a[k] = b[k]

RECURSIVE Without(_, _)
Without(table, m) ==
    IF table = <<>> THEN <<>>
    ELSE IF SameMap(Head(table), m) THEN Without(Tail(table), m)
    ELSE <<Head(table)>> \o Without(Tail(table), m)

InstallAccessors(table, m) == Append(Without(table, m), m)

\* The class the generated properties are set on: self.__class__.
InstallTargetBase(cls) == "Coordinates"
InstallTarget(cls) == cls

\* _init_coord_properties, run by every construction.
InitCoordProperties(p, cls) ==
    [p EXCEPT ![InstallTarget(cls)] = InstallAccessors(@, ClassCoords(cls))]

TableHas(table, name) == \E i \in 1..Len(table) : Generates(table[i], name)

TableIndices(table, name) ==
    LET i == CHOOSE j \in 1..Len(table) :
                 /\ Generates(table[j], name)
                 /\ \A k \in (j+1)..Len(table) : ~Generates(table[k], name)
    IN AccessorIndices(table[i], name)

\* Attribute lookup of an accessor name on an instance of cls: the first
\* class of the MRO that has it.  NoAccessor when none has.
NoAccessor == <<-1>>

RECURSIVE LookupIn(_, _, _)
LookupIn(p, mro, name) ==
    IF mro = <<>> THEN NoAccessor
    ELSE IF TableHas(p[Head(mro)], name) THEN TableIndices(p[Head(mro)], name)
    ELSE LookupIn(p, Tail(mro), name)

LookupAccessor(p, cls, name) == LookupIn(p, MRO(cls), name)

\* ------------------------------------------------------ array primitive
\* _array is a 0-based numpy vector, kept as a sequence: element i is a[i+1].
NormIndex(i, n) == IF i < 0 THEN i + n ELSE i

InBounds(i, n) == NormIndex(i, n) >= 0 /\ NormIndex(i, n) < n

\* A Python value passed or returned: a number, or a sequence of numbers.
Scalar(x) == [kind |-> "scalar", v |-> <<x>>]
Tuple(s) == [kind |-> "tuple", v |-> s]
NoValue == [kind |-> "none", v |-> <<>>]

\* array[indices] with a list of indices
FancyGet(a, indices) ==
    [k \in 1..Len(indices) |-> a[NormIndex(indices[k], Len(a)) + 1]]

\* The value written at position k of an index list of length n
\* (a scalar or a one-element sequence is broadcast).
Broadcastable(value, n) ==
    \/ value.kind = "scalar"
    \/ value.kind = "tuple" /\ Len(value.v) \in {1, n}

ValueAt(value, k) ==
    IF value.kind = "scalar" \/ Len(value.v) = 1 THEN value.v[1]
    ELSE value.v[k]

\* array[indices] = value: scatter write in order, last write wins
\* on a repeated index.
FancySet(a, indices, value) ==
    [j \in 1..Len(a) |->
        IF \E k \in 1..Len(indices) : NormIndex(indices[k], Len(a)) + 1 = j
        THEN LET k == CHOOSE kk \in 1..Len(indices) :
                        /\ NormIndex(indices[kk], Len(a)) + 1 = j
                        /\ \A k2 \in (kk+1)..Len(indices) :
                               NormIndex(indices[k2], Len(a)) + 1 # j
             IN ValueAt(value, k)
        ELSE a[j]]

\* ------------------------------------------------------------- objects
\* An object is a record of its class and its instance attributes; reading
\* an attribute the constructors never set raises AttributeError.
HasAttr(o, a) == a \in DOMAIN o

Ok(o) == [err |-> "none", obj |-> o]
Raise(e) == [err |-> e, obj |-> [cls |-> "none"]]

\* Coordinates.__init__: self._array = np.array(args)
CoordinatesInit(cls, args) == [cls |-> cls, _array |-> args]

CoordinatesNew(args) == Ok(CoordinatesInit("Coordinates", args))

\* Translation.__init__: assert len(args) == 3
TranslationNew(args) ==
    IF Len(args) # 3 THEN Raise("AssertionError")
    ELSE Ok(CoordinatesInit("Translation", args))

\* Scale.__init__: vals = args * 3 if len(args) == 1 else args
ScaleValsNoBroadcast(args) == args
ScaleVals(args) == IF Len(args) = 1 THEN args \o args \o args ELSE args

ScaleNew(args) ==
    IF Len(ScaleVals(args)) # 3 THEN Raise("AssertionError")
    ELSE Ok(CoordinatesInit("Scale", ScaleVals(args)))

\* RotationEuler.__init__(x, y, z, axes='rxyz'): self.axes = axes
DefaultAxes == <<"r", "x", "y", "z">>

EulerInit(cls, xyz, axes) == [cls |-> cls, _array |-> xyz, axes |-> axes]

\* RotationQuaternion.__init__(w, x, y, z)
QuaternionInit(wxyz) == CoordinatesInit("RotationQuaternion", wxyz)

\* ------------------------------------------------------ named accessors
Result(e, h, ev, r) == [err |-> e, heap |-> h, events |-> ev, res |-> r]

\* getter: tuple(self._array[indices]) if len(args) > 1
\*         else self._array[indices[0]]
GetterStorageOrder(a, indices) ==
    IF Len(indices) > 1
    THEN Tuple(FancyGet(a, SortSeq(indices, LAMBDA p, q : p < q)))
    ELSE Scalar(a[NormIndex(indices[1], Len(a)) + 1])

Getter(a, indices) ==
    IF Len(indices) > 1 THEN Tuple(FancyGet(a, indices))
    ELSE Scalar(a[NormIndex(indices[1], Len(a)) + 1])

NamedGet(h, p, i, name) ==
    LET indices == LookupAccessor(p, h[i].cls, name)
        a == h[i]._array
    IN IF indices = NoAccessor THEN Result("AttributeError", h, <<>>, NoValue)
       ELSE IF \E k \in 1..Len(indices) : ~InBounds(indices[k], Len(a))
       THEN Result("IndexError", h, <<>>, NoValue)
       ELSE Result("none", h, <<>>, Getter(a, indices))

\* setter: setitem(self._array, indices, value); self.notify_observers()
SetterEventsNotifyFirst == <<"notify", "write">>
SetterEvents == <<"write", "notify">>

NamedSet(h, p, i, name, value) ==
    LET indices == LookupAccessor(p, h[i].cls, name)
        a == h[i]._array
    IN IF indices = NoAccessor THEN Result("AttributeError", h, <<>>, NoValue)
       ELSE IF \E k \in 1..Len(indices) : ~InBounds(indices[k], Len(a))
       THEN Result("IndexError", h, <<>>, NoValue)
       ELSE IF ~Broadcastable(value, Len(indices))
       THEN Result("ValueError", h, <<>>, NoValue)
       ELSE Result("none",
                   [h EXCEPT ![i]._array = FancySet(a, indices, value)],
                   SetterEvents, NoValue)

\* IterObservable.__setitem__: the observer hook of a raw-index write.
IterObservableSetItem == <<"notify">>

\* Coordinates.__setitem__(idx, value) with an integer idx:
\*   self._array[idx] = value; super().__setitem__(idx, value)
SetItemOp(h, i, idx, value) ==
    LET a == h[i]._array
    IN IF ~InBounds(idx, Len(a)) THEN Result("IndexError", h, <<>>, NoValue)
       ELSE IF ~Broadcastable(value, 1)
       THEN Result("ValueError", h, <<>>, NoValue)
       ELSE Result("none",
                   [h EXCEPT ![i]._array[NormIndex(idx, Len(a)) + 1] =
                                 ValueAt(value, 1)],
                   <<"write">> \o IterObservableSetItem, NoValue)

\* ------------------------------------------------ the rotation primitive
\* scipy's Rotation on the rotations that map the coordinate axes onto
\* themselves: angles are counted in quarter turns, a rotation is its 3x3
\* matrix of integers.
Cos(q) == <<1, 0, -1, 0>>[(q % 4) + 1]
Sin(q) == <<0, 1, 0, -1>>[(q % 4) + 1]

Elementary(axis, q) ==
    CASE axis = "x" -> <<<<1, 0, 0>>, <<0, Cos(q), -Sin(q)>>, <<0, Sin(q), Cos(q)>>>>
      [] axis = "y" -> <<<<Cos(q), 0, Sin(q)>>, <<0, 1, 0>>, <<-Sin(q), 0, Cos(q)>>>>
      [] axis = "z" -> <<<<Cos(q), -Sin(q), 0>>, <<Sin(q), Cos(q), 0>>, <<0, 0, 1>>>>

MatMul(A, B) ==
    [r \in 1..3 |-> [c \in 1..3 |->
        A[r][1] * B[1][c] + A[r][2] * B[2][c] + A[r][3] * B[3][c]]]

\* R.from_euler(seq, angles) with a lower-case seq: extrinsic rotations,
\* the first axis of seq applied first.
FromEuler(seq, angles) ==
    MatMul(Elementary(seq[3], angles[3]),
           MatMul(Elementary(seq[2], angles[2]), Elementary(seq[1], angles[1])))

\* Rotation.as_euler(seq): first and third angle in (-pi, pi], second in
\* [-pi/2, pi/2]; at gimbal lock the third angle is set to zero.
AsEuler(M, seq) ==
    CHOOSE ang \in [1..3 -> -1..2] :
        /\ ang[2] \in -1..1
        /\ (ang[2] # 0 => ang[3] = 0)
        /\ FromEuler(seq, ang) = M

\* R.from_quat(q): q is read scalar-last, (x, y, z, w), and normalised;
\* a zero norm is refused.
QuatNorm2(q) == q[1] * q[1] + q[2] * q[2] + q[3] * q[3] + q[4] * q[4]

QuatNumerator(q) ==
    LET x == q[1]  y == q[2]  z == q[3]  w == q[4]
    IN <<<<w*w + x*x - y*y - z*z, 2 * (x*y - w*z), 2 * (x*z + w*y)>>,
         <<2 * (x*y + w*z), w*w - x*x + y*y - z*z, 2 * (y*z - w*x)>>,
         <<2 * (x*z - w*y), 2 * (y*z + w*x), w*w - x*x - y*y + z*z>>>>

FromQuat(q) ==
    [r \in 1..3 |-> [c \in 1..3 |-> QuatNumerator(q)[r][c] \div QuatNorm2(q)]]

\* The quaternions the primitive is modelled on: the zero quaternion and
\* those of a rotation with an integer matrix.
QuatRepresentable(q) ==
    IF QuatNorm2(q) = 0 THEN TRUE
    ELSE \A r \in 1..3 : \A c \in 1..3 :
             QuatNumerator(q)[r][c] % QuatNorm2(q) = 0

\* np.eye(4) with the rotation in the top-left 3x3 block
Mat4(M) ==
    [r \in 1..4 |-> [c \in 1..4 |->
        IF r <= 3 /\ c <= 3 THEN M[r][c] ELSE IF r = c THEN 1 ELSE 0]]

Block3(M4) == [r \in 1..3 |-> [c \in 1..3 |-> M4[r][c]]]

\* np.degrees and np.radians on angle vectors (a radian value is counted
\* in quarter turns, a degree value in degrees).
Degrees(a) == [k \in 1..Len(a) |-> 90 * a[k]]
Radians(a) == [k \in 1..Len(a) |-> a[k] \div 90]

\* ------------------------------------------------------------ Translation
XYZ == <<"x", "y", "z">>

\* A binary operator's outcome
BRaise(e) == [err |-> e, obj |-> [cls |-> "none"]]

\* The right operand: entity j of the heap, or (j = 0) the bare sequence.
\* oth = other.xyz if isinstance(other, Translation) else other
Oth(h, p, j, bare) == IF j # 0 THEN NamedGet(h, p, j, XYZ).res.v ELSE bare

\* Translation.__add__
TranslationAdd(h, p, i, j, bare) ==
    IF Len(Oth(h, p, j, bare)) # 3 THEN BRaise("ValueError")
    ELSE TranslationNew(
            [k \in 1..3 |-> NamedGet(h, p, i, XYZ).res.v[k] + Oth(h, p, j, bare)[k]])

\* Translation.__sub__: the subtrahend is read as other.xyz
TranslationSub(h, p, i, j, bare) ==
    IF Len(Oth(h, p, j, bare)) # 3 THEN BRaise("ValueError")
    ELSE IF j = 0 THEN BRaise("AttributeError")
    ELSE TranslationNew(
            [k \in 1..3 |-> NamedGet(h, p, i, XYZ).res.v[k]
                              - NamedGet(h, p, j, XYZ).res.v[k]])

\* ------------------------------------------------------ rotation methods
\* The outcome of a method: the exception raised, or the object returned
\* (the receiver itself when `self`), and the classes whose constructor ran
\* during the call, in order.
MSelf(o) == [err |-> "none", self |-> TRUE, obj |-> o, made |-> <<>>]
MNew(o, made) == [err |-> "none", self |-> FALSE, obj |-> o, made |-> made]
MRaise(e, made) ==
    [err |-> e, self |-> FALSE, obj |-> [cls |-> "none"], made |-> made]

\* The quaternion of a rotation, scalar-last, given by an integer
\* quaternion of its direction with a non-negative scalar part.
AsQuat(M) ==
    CHOOSE q \in [1..4 -> -1..1] :
        /\ QuatNorm2(q) # 0
        /\ QuatRepresentable(q)
        /\ FromQuat(q) = M
        /\ q[4] >= 0
        /\ \A p \in [1..4 -> -1..1] :
               (QuatNorm2(p) # 0 /\ QuatRepresentable(p) /\ FromQuat(p) = M
                    /\ p[4] >= 0)
                   => (p = q \/ \E k \in 1..4 :
                          p[k] < q[k] /\ \A j \in 1..(k-1) : p[j] = q[j])

\* str.lower() on the characters the unit strings are made of
LowerChar(c) ==
    CASE c = "R" -> "r" [] c = "A" -> "a" [] c = "D" -> "d"
      [] c = "E" -> "e" [] c = "G" -> "g" [] OTHER -> c

LowerVerbatim(str) == str
Lower(str) == [k \in 1..Len(str) |-> LowerChar(str[k])]

Rad == <<"r", "a", "d">>
Deg == <<"d", "e", "g">>

\* RotationEulerRadians
RadiansToRadians(o) == MSelf(o)

RadiansToDegrees(o) ==
    MNew(EulerInit("RotationEulerDegrees", Degrees(o._array), o.axes),
         <<"RotationEulerDegrees">>)

\* R.from_euler(self._axes[1:], ...): the attribute read comes first
RadiansToQuaternion(o) ==
    IF ~HasAttr(o, "_axes") THEN MRaise("AttributeError", <<>>)
    ELSE MNew(QuaternionInit(AsQuat(FromEuler(Tail(o._axes), o._array))),
              <<"RotationQuaternion">>)

RadiansToMatrix(o) == Mat4(FromEuler(Tail(o.axes), o._array))

RadiansToEuler(o, units) ==
    IF Lower(units) \notin {Rad, Deg} THEN MRaise("AssertionError", <<>>)
    ELSE IF Lower(units) = Rad
    THEN MNew(EulerInit("RotationEulerRadians", o._array, o.axes),
              <<"RotationEulerRadians">>)
    ELSE MNew(EulerInit("RotationEulerDegrees", Degrees(o._array),
                        o.axes),
              <<"RotationEulerDegrees">>)

\* cls(*coords): the axes argument is used for the extraction only
RadiansFromMatrix(matrix, axes) ==
    MNew(EulerInit("RotationEulerRadians", AsEuler(Block3(matrix), Tail(axes)),
                   DefaultAxes),
         <<"RotationEulerRadians">>)

\* RotationEulerDegrees: every conversion goes through to_radians()
DegreesToRadiansSelf(o) == MSelf(o)
DegreesToRadians(o) ==
    MNew(EulerInit("RotationEulerRadians", Radians(o._array), o.axes),
         <<"RotationEulerRadians">>)

DegreesToDegrees(o) == MSelf(o)

Via(first, then) ==
    [then EXCEPT !.made = first.made \o then.made]

DegreesToQuaternion(o) ==
    Via(DegreesToRadians(o), RadiansToQuaternion(DegreesToRadians(o).obj))

DegreesToEuler(o, units) ==
    Via(DegreesToRadians(o), RadiansToEuler(DegreesToRadians(o).obj, units))

DegreesToMatrix(o) == RadiansToMatrix(DegreesToRadians(o).obj)

DegreesFromMatrix(matrix, axes) ==
    MNew(EulerInit("RotationEulerDegrees",
                   Degrees(AsEuler(Block3(matrix), Tail(axes))), DefaultAxes),
         <<"RotationEulerDegrees">>)

\* RotationQuaternion: R.from_quat(self) reads the stored vector as it is
QuaternionToQuaternion(o) == MSelf(o)

QuaternionToMatrix(o) == Mat4(FromQuat(o._array))

QuaternionToEuler(o, units) ==
    IF QuatNorm2(o._array) = 0 THEN MRaise("ValueError", <<>>)
    ELSE IF Lower(units) \notin {Rad, Deg} THEN MRaise("AssertionError", <<>>)
    ELSE IF Lower(units) = Rad
    THEN MNew(EulerInit("RotationEulerRadians",
                        AsEuler(FromQuat(o._array), <<"x", "y", "z">>),
                        DefaultAxes),
              <<"RotationEulerRadians">>)
    ELSE MNew(EulerInit("RotationEulerDegrees",
                        Degrees(AsEuler(FromQuat(o._array), <<"x", "y", "z">>)),
                        DefaultAxes),
              <<"RotationEulerDegrees">>)

\* Method dispatch on the receiver's class
EulerClasses == {"RotationEulerRadians", "RotationEulerDegrees"}
RotationClasses == EulerClasses \cup {"RotationQuaternion"}

ToRadiansOf(o) ==
    IF o.cls = "RotationEulerRadians" THEN RadiansToRadians(o)
    ELSE DegreesToRadians(o)

ToDegreesOf(o) ==
    IF o.cls = "RotationEulerRadians" THEN RadiansToDegrees(o)
    ELSE DegreesToDegrees(o)

ToQuaternionOf(o) ==
    CASE o.cls = "RotationEulerRadians" -> RadiansToQuaternion(o)
      [] o.cls = "RotationEulerDegrees" -> DegreesToQuaternion(o)
      [] o.cls = "RotationQuaternion" -> QuaternionToQuaternion(o)

ToEulerOf(o, units) ==
    CASE o.cls = "RotationEulerRadians" -> RadiansToEuler(o, units)
      [] o.cls = "RotationEulerDegrees" -> DegreesToEuler(o, units)
      [] o.cls = "RotationQuaternion" -> QuaternionToEuler(o, units)

ToMatrixOf(o) ==
    CASE o.cls = "RotationEulerRadians" -> RadiansToMatrix(o)
      [] o.cls = "RotationEulerDegrees" -> DegreesToMatrix(o)
      [] o.cls = "RotationQuaternion" -> QuaternionToMatrix(o)

FromMatrixOf(cls, matrix, axes) ==
    IF cls = "RotationEulerRadians" THEN RadiansFromMatrix(matrix, axes)
    ELSE DegreesFromMatrix(matrix, axes)

\* ----------------------------------------------------------- the state
NoLast ==
    [op |-> "none", obj |-> 0, arg |-> 0, name |-> <<>>, value |-> NoValue,
     res |-> NoValue, ref |-> 0, err |-> "none"]

\* The latest conversion that returned: its receiver, the object it
\* returned, whether every write through the returned object since has left
\* the receiver's components alone (kept), and whether every write through
\* the receiver has left the returned object's alone (rkept).
NoLink == [recv |-> 0, res |-> 0, kept |-> TRUE, rkept |-> TRUE]

Init ==
    /\ heap = <<>>
    /\ props = [c \in AllClasses |-> <<>>]
    /\ last = NoLast
    /\ events = <<>>
    /\ link = NoLink

Idle == last.op = "none"

Objs == 1..Len(heap)

\* The component values a client gives an entity of a class (an angle in
\* degrees is a whole number of quarter turns).
ClientVals(cls) ==
    IF cls = "RotationEulerDegrees" THEN {90 * v : v \in Vals} ELSE Vals

\* The entities the rotation primitive is modelled on.
InDomain(o) == o.cls = "RotationQuaternion" => QuatRepresentable(o._array)

\* Values a client passes to a setter of an accessor addressing n indices:
\* a scalar, a sequence of length 1 or n, or one of another length.
SetValues(cls, n) ==
    {Scalar(v) : v \in ClientVals(cls)}
        \cup {Tuple(s) : s \in [1..1 -> ClientVals(cls)] \cup [1..n -> ClientVals(cls)]}
        \cup {Tuple([k \in 1..(n + 1) |-> 0])}

ArgLists == UNION {[1..n -> Vals] : n \in 0..MaxArgs}

AxesSpecs == {<<"r", "x", "y", "z">>, <<"r", "z", "y", "x">>}

\* A constructor call: the object is allocated and its class gets the
\* accessors only when __init__ runs through.
Construct(opname, out, args) ==
    /\ Idle
    /\ Len(heap) < MaxObjs
    /\ out.err = "none" => InDomain(out.obj)
    /\ IF out.err = "none"
       THEN /\ heap' = Append(heap, out.obj)
            /\ props' = InitCoordProperties(props, out.obj.cls)
            /\ last' = [NoLast EXCEPT !.op = opname, !.value = Tuple(args),
                                      !.ref = Len(heap) + 1]
       ELSE /\ UNCHANGED <<heap, props>>
            /\ last' = [NoLast EXCEPT !.op = opname, !.value = Tuple(args),
                                      !.err = out.err]
    /\ events' = <<>>
    /\ UNCHANGED link

NewCoordinates ==
    \E args \in ArgLists : Construct("Coordinates", CoordinatesNew(args), args)

NewTranslation ==
    \E args \in ArgLists : Construct("Translation", TranslationNew(args), args)

NewScale ==
    \E args \in ArgLists : Construct("Scale", ScaleNew(args), args)

NewEuler ==
    \E cls \in {"RotationEulerRadians", "RotationEulerDegrees"} :
      \E args \in [1..3 -> ClientVals(cls)] : \E axes \in AxesSpecs :
        Construct(cls, Ok(EulerInit(cls, args, axes)), args)

NewQuaternion ==
    \E args \in [1..4 -> Vals] :
        Construct("RotationQuaternion", Ok(QuaternionInit(args)), args)

\* The accessor names a client uses on an entity: those over its own
\* class's axis letters.
ClientNames(i) == AccessorNames(ClassCoords(heap[i].cls))

\* A write through the object the latest conversion returned is followed
\* up on that conversion's receiver, and a write through the receiver on the
\* returned object.
LinkAfterWrite(i, h) ==
    IF link.recv = 0 THEN link
    ELSE IF i = link.res
    THEN [link EXCEPT !.kept = @ /\ h[link.recv]._array = heap[link.recv]._array]
    ELSE IF i = link.recv
    THEN [link EXCEPT !.rkept = @ /\ h[link.res]._array = heap[link.res]._array]
    ELSE link

GetNamed ==
    /\ Idle
    /\ \E i \in Objs : \E name \in ClientNames(i) :
        LET out == NamedGet(heap, props, i, name)
        IN /\ last' = [NoLast EXCEPT !.op = "get", !.obj = i, !.name = name,
                                     !.res = out.res, !.err = out.err]
           /\ events' = out.events
           /\ heap' = out.heap
           /\ UNCHANGED <<props, link>>

SetNamed ==
    /\ Idle
    /\ \E i \in Objs : \E name \in ClientNames(i) :
      \E value \in SetValues(heap[i].cls, Len(name)) :
        LET out == NamedSet(heap, props, i, name, value)
        IN /\ InDomain(out.heap[i])
           /\ last' = [NoLast EXCEPT !.op = "set", !.obj = i, !.name = name,
                                     !.value = value, !.err = out.err]
           /\ events' = out.events
           /\ heap' = out.heap
           /\ link' = LinkAfterWrite(i, out.heap)
           /\ UNCHANGED props

SetItem ==
    /\ Idle
    /\ \E i \in Objs : \E idx \in -1..MaxArgs :
      \E value \in SetValues(heap[i].cls, 1) :
        LET out == SetItemOp(heap, i, idx, value)
        IN /\ InDomain(out.heap[i])
           /\ last' = [NoLast EXCEPT !.op = "setitem", !.obj = i,
                                     !.err = out.err]
           /\ events' = out.events
           /\ heap' = out.heap
           /\ link' = LinkAfterWrite(i, out.heap)
           /\ UNCHANGED props

Matrix(M) == [kind |-> "matrix", v |-> M]

RECURSIVE InstallAll(_, _)
InstallAll(p, made) ==
    IF made = <<>> THEN p
    ELSE InstallAll(InitCoordProperties(p, Head(made)), Tail(made))

UnitStrings ==
    {Rad, Deg, <<"R", "A", "D">>, <<"R", "a", "d">>, <<"D", "E", "G">>,
     <<"d", "E", "g">>, <<"b", "a", "d">>, <<"r", "a", "d", "s">>, <<>>}

\* The matrices a client hands to from_matrix: those of the rotations
\* whose angles are client values.
MatrixInputs == {Mat4(FromEuler(<<"x", "y", "z">>, ang)) : ang \in [1..3 -> Vals]}

\* A method call on entity i (0: a classmethod) with outcome `out`: a new
\* object returned is allocated, and every constructor that ran has
\* installed its class's accessors.
Call(opname, i, name, value, out, watch) ==
    /\ Idle
    /\ Len(heap) < MaxObjs
    /\ heap' = IF out.err = "none" /\ ~out.self THEN Append(heap, out.obj)
               ELSE heap
    /\ props' = InstallAll(props, out.made)
    /\ last' = [NoLast EXCEPT
                  !.op = opname, !.obj = i, !.name = name, !.value = value,
                  !.err = out.err,
                  !.ref = IF out.err # "none" THEN 0
                          ELSE IF out.self THEN i ELSE Len(heap) + 1]
    /\ events' = <<>>
    /\ link' = IF watch /\ out.err = "none"
               THEN [recv |-> i,
                     res |-> IF out.self THEN i ELSE Len(heap) + 1,
                     kept |-> TRUE, rkept |-> TRUE]
               ELSE link

ToRadians ==
    \E i \in Objs :
        /\ heap[i].cls \in EulerClasses
        /\ Call("to_radians", i, <<>>, NoValue, ToRadiansOf(heap[i]), TRUE)

ToDegrees ==
    \E i \in Objs :
        /\ heap[i].cls \in EulerClasses
        /\ Call("to_degrees", i, <<>>, NoValue, ToDegreesOf(heap[i]), TRUE)

ToQuaternion ==
    \E i \in Objs :
        /\ heap[i].cls \in RotationClasses
        /\ Call("to_quaternion", i, <<>>, NoValue, ToQuaternionOf(heap[i]), TRUE)

ToEuler ==
    \E i \in Objs : \E units \in UnitStrings :
        /\ heap[i].cls \in RotationClasses
        /\ Call("to_euler", i, units, NoValue, ToEulerOf(heap[i], units), TRUE)

FromMatrix ==
    \E cls \in EulerClasses : \E matrix \in MatrixInputs : \E axes \in AxesSpecs :
        Call("from_matrix", 0, axes, Matrix(matrix),
             FromMatrixOf(cls, matrix, axes), FALSE)

ToMatrix ==
    /\ Idle
    /\ \E i \in Objs :
        /\ heap[i].cls \in RotationClasses
        /\ IF heap[i].cls = "RotationQuaternion" /\ QuatNorm2(heap[i]._array) = 0
           THEN /\ last' = [NoLast EXCEPT !.op = "to_matrix", !.obj = i,
                                          !.err = "ValueError"]
                /\ props' = props
           ELSE /\ last' = [NoLast EXCEPT !.op = "to_matrix", !.obj = i,
                                          !.res = Matrix(ToMatrixOf(heap[i]))]
                /\ props' = IF heap[i].cls = "RotationEulerDegrees"
                            THEN InstallAll(props, DegreesToRadians(heap[i]).made)
                            ELSE props
    /\ events' = <<>>
    /\ UNCHANGED <<heap, link>>

\* t + other and t - other: other is a Translation of the heap or a bare
\* sequence.
Binary(opname, i, j, bare, out) ==
    /\ Idle
    /\ Len(heap) < MaxObjs
    /\ heap' = IF out.err = "none" THEN Append(heap, out.obj) ELSE heap
    /\ props' = IF out.err = "none" THEN InitCoordProperties(props, "Translation")
                ELSE props
    /\ last' = [NoLast EXCEPT
                  !.op = opname, !.obj = i, !.arg = j,
                  !.value = IF j = 0 THEN Tuple(bare) ELSE NoValue,
                  !.err = out.err,
                  !.ref = IF out.err = "none" THEN Len(heap) + 1 ELSE 0]
    /\ events' = <<>>
    /\ UNCHANGED link

Operands == {<<j, <<>>>> : j \in Objs} \cup {<<0, bare>> : bare \in ArgLists}

Add ==
    \E i \in Objs : \E other \in Operands :
        Binary("add", i, other[1], other[2],
               TranslationAdd(heap, props, i, other[1], other[2]))

Sub ==
    \E i \in Objs : \E other \in Operands :
        Binary("sub", i, other[1], other[2],
               TranslationSub(heap, props, i, other[1], other[2]))

\* The caller takes the outcome of the call; the next call can start.
Return ==
    /\ ~Idle
    /\ last' = NoLast
    /\ events' = <<>>
    /\ UNCHANGED <<heap, props, link>>

\* One entity, from its construction on, under named and raw access.
NextAccess ==
    \/ heap = <<>> /\ NewCoordinates
    \/ heap = <<>> /\ NewTranslation
    \/ heap = <<>> /\ NewScale
    \/ heap = <<>> /\ NewEuler
    \/ heap = <<>> /\ NewQuaternion
    \/ GetNamed
    \/ SetNamed
    \/ SetItem
    \/ Return

SpecAccess == Init /\ [][NextAccess]_vars

\* Entities of every class, living side by side.
NextInstances ==
    \/ NewCoordinates
    \/ NewTranslation
    \/ NewScale
    \/ NewEuler
    \/ NewQuaternion
    \/ Return

SpecInstances == Init /\ [][NextInstances]_vars

\* Rotations: construction, conversion, and raw component writes.
NextRot ==
    \/ heap = <<>> /\ NewEuler
    \/ heap = <<>> /\ NewQuaternion
    \/ ToRadians
    \/ ToDegrees
    \/ ToQuaternion
    \/ ToEuler
    \/ ToMatrix
    \/ FromMatrix
    \/ SetItem
    \/ Return

SpecRot == Init /\ [][NextRot]_vars

\* Translations and their sums and differences.
NextTrans ==
    \/ NewTranslation
    \/ Add
    \/ Sub
    \/ Return

SpecTrans == Init /\ [][NextTrans]_vars

\* ============================================================== claims
\* The axis letters of a 3-component entity, in the order the claims give
\* them (x first), as positions of the stored vector.
AxisPos == [x |-> 1, y |-> 2, z |-> 3]

Perms3 == {p \in [1..3 -> {"x", "y", "z"}] : \A a, b \in 1..3 : a # b => p[a] # p[b]}

ThreeComponent(i) ==
    /\ heap[i].cls # "RotationQuaternion"
    /\ Len(heap[i]._array) = 3

\* C1: on a 3-component entity, for every permutation P of x, y, z the
\* getter P returns the stored components in P's order, and a write of a
\* triple v through the setter P stores v[k] at the index of the k-th letter
\* of P, after which the getter P returns v.
C1_PermutationAccess ==
    /\ (/\ last.op = "get"
        /\ ThreeComponent(last.obj)
        /\ last.name \in Perms3)
       => /\ last.err = "none"
          /\ last.res = Tuple([k \in 1..3 |-> heap[last.obj]._array[AxisPos[last.name[k]]]])
    /\ (/\ last.op = "set"
        /\ ThreeComponent(last.obj)
        /\ last.name \in Perms3
        /\ last.value.kind = "tuple"
        /\ Len(last.value.v) = 3)
       => /\ last.err = "none"
          /\ \A k \in 1..3 :
                 heap[last.obj]._array[AxisPos[last.name[k]]] = last.value.v[k]
          /\ NamedGet(heap, props, last.obj, last.name).res = last.value

C1_Witness ==
    /\ last.op = "set"
    /\ last.err = "none"
    /\ last.name = <<"z", "x", "y">>
    /\ last.value = Tuple(<<1, 0, 0>>)
    /\ heap[last.obj].cls = "Translation"
    /\ heap[last.obj]._array = <<0, 0, 1>>

\* C2: a named-accessor write that goes through performs the component
\* write and then exactly one change notification; a named read performs
\* neither a write nor a notification.
C2_OneNotificationAfterWrite ==
    /\ (last.op = "set" /\ last.err = "none") => events = <<"write", "notify">>
    /\ last.op = "get" => events = <<>>

C2_Witness ==
    /\ last.op = "set"
    /\ last.err = "none"
    /\ last.name = <<"w", "z", "w", "x">>
    /\ events = <<"write", "notify">>

\* C7: Scale(s) has the components (s, s, s), Scale(a, b, c) has (a, b, c),
\* and a call with any other number of arguments raises the usage error and
\* constructs no entity.
C7_ScaleConstructor ==
    last.op = "Scale" =>
        LET args == last.value.v
        IN /\ Len(args) = 1 =>
                /\ last.err = "none"
                /\ heap[last.ref].cls = "Scale"
                /\ heap[last.ref]._array = <<args[1], args[1], args[1]>>
           /\ Len(args) = 3 =>
                /\ last.err = "none"
                /\ heap[last.ref].cls = "Scale"
                /\ heap[last.ref]._array = args
           /\ Len(args) \notin {1, 3} =>
                /\ last.err = "AssertionError"
                /\ last.ref = 0
                /\ heap = <<>>

C7_Witness ==
    /\ last.op = "Scale"
    /\ last.value = Tuple(<<1>>)
    /\ last.err = "none"
    /\ heap[last.ref]._array = <<1, 1, 1>>

\* C9: every entity's vector is as long as its class's axis-name map has
\* entries.
C9_VectorLengthIsMapSize ==
    \A i \in Objs :
        Len(heap[i]._array) =
            IF heap[i].cls = "RotationQuaternion" THEN 4 ELSE 3

\* The axis-name map of each entity type, as the claim gives it.
OwnAxisMap(cls) ==
    IF cls = "RotationQuaternion" THEN [w |-> 0, x |-> 1, y |-> 2, z |-> 3]
    ELSE [x |-> 0, y |-> 1, z |-> 2]

\* C10: whatever entities of other types were created before or after it,
\* every accessor name on every live entity addresses the indices of the
\* entity's own axis-name map, for reading and for writing.
C10_AccessorsFollowOwnMap ==
    \A i \in Objs :
        LET m == OwnAxisMap(heap[i].cls)
        IN \A name \in AccessorNames(m) :
             LET own == [k \in 1..Len(name) |-> m[name[k]]]
             IN /\ LookupAccessor(props, heap[i].cls, name) = own
                /\ Len(heap[i]._array) = Cardinality(DOMAIN m) =>
                     /\ NamedGet(heap, props, i, name).res.v =
                            [k \in 1..Len(name) |-> heap[i]._array[own[k] + 1]]
                     /\ \A k \in 1..Len(name) :
                            (\A k2 \in (k+1)..Len(name) : own[k2] # own[k]) =>
                                NamedSet(heap, props, i, name,
                                         Tuple([j \in 1..Len(name) |-> j])
                                        ).heap[i]._array[own[k] + 1] = k

C10_Witness ==
    /\ Len(heap) = 2
    /\ heap[1].cls = "Translation"
    /\ heap[2].cls = "RotationQuaternion"
    /\ Idle

Conversions == {"to_radians", "to_degrees", "to_quaternion", "to_euler"}

\* C3, as claimed: after any conversion has returned, no write through the
\* returned object changes the receiver's components, and no write through
\* the receiver changes the returned object's.
C3_ConversionResultIndependent ==
    link.recv # 0 => link.kept /\ link.rkept

\* The conversions to the receiver's own representation.
SameRepresentation(op, cls) ==
    \/ op = "to_radians" /\ cls = "RotationEulerRadians"
    \/ op = "to_degrees" /\ cls = "RotationEulerDegrees"
    \/ op = "to_quaternion" /\ cls = "RotationQuaternion"

\* C3, amended: a conversion that returns gives back the receiver itself
\* when it converts to the receiver's own representation (to_radians on
\* Euler-radians, to_degrees on Euler-degrees, to_quaternion on a
\* quaternion), and otherwise a newly allocated object; writes through a
\* newly allocated result never change the receiver, nor writes through the
\* receiver the result.
C3_NewInstanceUnlessSameRepresentation ==
    /\ (last.op \in Conversions /\ last.err = "none") =>
          IF SameRepresentation(last.op, heap[last.obj].cls)
          THEN last.ref = last.obj
          ELSE last.ref # last.obj /\ last.ref = Len(heap)
    /\ (link.recv # 0 /\ link.res # link.recv) => link.kept /\ link.rkept

C3_Witness ==
    /\ last.op = "setitem"
    /\ last.err = "none"
    /\ link.recv # 0
    /\ link.res # link.recv
    /\ last.obj = link.res
    /\ heap[link.res].cls = "RotationEulerDegrees"
    /\ heap[link.res]._array # Degrees(heap[link.recv]._array)

\* C4: to_radians, to_degrees and to_euler of an Euler entity return an
\* entity with the receiver's axes spec, and from_matrix(matrix, axes) of an
\* Euler variant returns one with the axes spec supplied.
C4_AxesSpecThreads ==
    /\ (/\ last.op \in {"to_radians", "to_degrees", "to_euler"}
        /\ last.err = "none"
        /\ heap[last.obj].cls \in EulerClasses)
       => heap[last.ref].axes = heap[last.obj].axes
    /\ (last.op = "from_matrix" /\ last.err = "none")
       => heap[last.ref].axes = last.name

\* C5: for a Translation t and an operand that is a Translation or a bare
\* sequence of length 3, t + other and t - other return a new Translation
\* holding the elementwise sum (difference).
C5_TranslationArithmetic ==
    (/\ last.op \in {"add", "sub"}
     /\ (last.arg # 0 \/ Len(last.value.v) = 3))
    => /\ last.err = "none"
       /\ last.ref = Len(heap)
       /\ last.ref \notin {last.obj, last.arg}
       /\ heap[last.ref].cls = "Translation"
       /\ LET a == heap[last.obj]._array
              b == IF last.arg # 0 THEN heap[last.arg]._array ELSE last.value.v
          IN heap[last.ref]._array =
                 [k \in 1..3 |-> IF last.op = "add" THEN a[k] + b[k]
                                 ELSE a[k] - b[k]]

Casings(word) ==
    {u \in [1..Len(word) -> {"r", "a", "d", "e", "g", "R", "A", "D", "E", "G"}] :
        \A k \in 1..Len(word) :
            \/ u[k] = word[k]
            \/ <<word[k], u[k]>> \in
                 {<<"r", "R">>, <<"a", "A">>, <<"d", "D">>, <<"e", "E">>, <<"g", "G">>}}

\* The receivers the rotation primitive accepts: an Euler entity, or a
\* quaternion of non-zero norm.
Accepted(o) == o.cls = "RotationQuaternion" => QuatNorm2(o._array) # 0

\* to_euler(units) on receiver o came out as to_euler(word) does, with an
\* entity of class cls returned for a receiver the primitive accepts.
EulerAs(o, word, cls) ==
    /\ last'.err = ToEulerOf(o, word).err
    /\ last'.err = "none" => heap'[last'.ref] = ToEulerOf(o, word).obj
    /\ Accepted(o) =>
         /\ last'.err = "none"
         /\ last'.ref = Len(heap) + 1
         /\ heap'[last'.ref].cls = cls

MatrixOfWXYZ(a) == FromQuat(<<a[2], a[3], a[4], a[1]>>)

\* C8: to_quaternion succeeds on every variant, and the rotation block of
\* the returned quaternion's matrix is that of the receiver's matrix and
\* that of its components read as (w, x, y, z).
C8_QuaternionMatrixAgrees ==
    last.op = "to_quaternion" =>
        /\ last.err = "none"
        /\ Accepted(heap[last.obj]) =>
             /\ Block3(ToMatrixOf(heap[last.ref])) = Block3(ToMatrixOf(heap[last.obj]))
             /\ Block3(ToMatrixOf(heap[last.ref])) = MatrixOfWXYZ(heap[last.ref]._array)

====
